---- MODULE Spec2Model ----
(***************************************************************************)
(* A model of paramiko/ssh_gss.py: SSH2 GSS-API / SSPI authentication.     *)
(*                                                                         *)
(* One session object (_SSH_GSSAPI or _SSH_SSPI), the one the first call   *)
(* of GSSAuth in the process returned, is modelled together with           *)
(* the security engine it drives.  The engine (python-gssapi / pywin32) is *)
(* not part of the repository: every answer it can give (a token, a        *)
(* completion signal, a status, an exception) is a nondeterministic choice.*)
(*                                                                         *)
(* Byte strings are sequences of integers 0..255 (the module is Python 2   *)
(* code: str is a byte string).  An optional value is <<>> for None and    *)
(* <<v>> for a present v.  A context handle is 0 for None and the index of *)
(* the context in the engine otherwise.                                    *)
(***************************************************************************)
EXTENDS Integers, Sequences, FiniteSets, TLC

VARIABLES
    api,                  \* which class the session object is: "MIT" or "SSPI"
    auth_method,          \* self._auth_method
    gss_deleg_creds,      \* self._gss_deleg_creds
    gss_flags,            \* self._gss_flags
    gss_host,             \* self._gss_host
    username,             \* self._username
    session_id,           \* self._session_id
    service,              \* self._service
    gss_ctxt,             \* self._gss_ctxt
    gss_ctxt_status,      \* self._gss_ctxt_status
    gss_srv_ctxt,         \* self._gss_srv_ctxt
    gss_srv_ctxt_status,  \* self._gss_srv_ctxt_status
    engine,               \* the security contexts the engine holds
    _API,                 \* the module global _API: "MIT", "SSPI" or "None"
    os_name,              \* os.name of the process
    importable,           \* the modules an import statement finds in the process
    call                  \* the last call on the session: arguments, result, engine calls

session == <<api, auth_method, gss_deleg_creds, gss_flags, gss_host, username,
             session_id, service, gss_ctxt, gss_ctxt_status, gss_srv_ctxt,
             gss_srv_ctxt_status, _API, os_name, importable>>

vars == <<api, auth_method, gss_deleg_creds, gss_flags, gss_host, username,
          session_id, service, gss_ctxt, gss_ctxt_status, gss_srv_ctxt,
          gss_srv_ctxt_status, engine, call, _API, os_name, importable>>

----------------------------------------------------------------------------
(* Bounds of the model *)

\* the rounds a negotiation takes are drawn from 1..MaxRounds
MaxRounds == 2

\* the engine holds at most MaxCtx contexts over the life of a session
MaxCtx == 2

----------------------------------------------------------------------------
(* Values *)

None == <<>>

Some(v) == <<v>>

IsNone(o) == o = <<>>

Val(o) == o[1]

NoHandle == 0

\* "ssh-"
S_ssh == <<115, 115, 104, 45>>

\* "ssh-connection"
S_ssh_connection == <<115, 115, 104, 45, 99, 111, 110, 110, 101, 99, 116, 105, 111, 110>>

\* "ssh-userauth"
S_ssh_userauth == <<115, 115, 104, 45, 117, 115, 101, 114, 97, 117, 116, 104>>

\* "gssapi-with-mic"
S_gssapi_with_mic == <<103, 115, 115, 97, 112, 105, 45, 119, 105, 116, 104, 45, 109, 105, 99>>

\* "gss-keyex"
S_gss_keyex == <<103, 115, 115, 45, 107, 101, 121, 101, 120>>

\* "alice"
S_alice == <<97, 108, 105, 99, 101>>

\* "é" in UTF-8: a user name with bytes outside ASCII
S_e_acute == <<195, 169>>

\* "foo"
S_foo == <<102, 111, 111>>

\* "xssh-y": holds "ssh-", not at the start
S_xssh_y == <<120, 115, 115, 104, 45, 121>>

\* "host"
S_host == <<104, 111, 115, 116>>

----------------------------------------------------------------------------
(* common.py *)

MSG_USERAUTH_REQUEST == 50

\* the value a call returns: None, a byte string, an integer, a boolean, or the
\* flag set itself (Python's "and"/"or" return an operand)
RNone == [t |-> "none", b |-> <<>>, n |-> 0, f |-> {}]

RBytes(x) == [t |-> "bytes", b |-> x, n |-> 0, f |-> {}]

RInt(i) == [t |-> "int", b |-> <<>>, n |-> i, f |-> {}]

RBool(v) == [t |-> "bool", b |-> <<>>, n |-> IF v THEN 1 ELSE 0, f |-> {}]

RFlags(fs) == [t |-> "flags", b |-> <<>>, n |-> 0, f |-> fs]

ROpt(o) == IF IsNone(o) THEN RNone ELSE RBytes(Val(o))

\* Python truth value of a returned value
Truthy(r) ==
    CASE r.t = "none" -> FALSE
      [] r.t = "bytes" -> r.b # <<>>
      [] r.t = "int" -> r.n # 0
      [] r.t = "bool" -> r.n # 0
      [] r.t = "flags" -> r.f # {}

\* the outcome of a helper that may raise: exc = "" when it returned val
Ok(v) == [exc |-> "", val |-> v]

Raise(e) == [exc |-> e, val |-> <<>>]

----------------------------------------------------------------------------
(* pyasn1: DER object identifiers, as far as ssh_gss.py uses them *)

RECURSIVE Decimal(_)
\* str() of a non-negative integer, as ASCII digits
Decimal(n) == IF n < 10 THEN <<48 + n>> ELSE Decimal(n \div 10) \o <<48 + (n % 10)>>

RECURSIVE Dotted(_)
\* ObjectIdentifier.__str__: the arcs in decimal, joined by "."
Dotted(arcs) ==
    IF Len(arcs) = 0 THEN <<>>
    ELSE IF Len(arcs) = 1 THEN Decimal(arcs[1])
    ELSE Dotted(SubSeq(arcs, 1, Len(arcs) - 1)) \o <<46>> \o Decimal(arcs[Len(arcs)])

RECURSIVE Base128(_, _, _)
\* the sub-identifiers of an OID body: base 128, high bit set on all but the last
\* byte of each; a body that ends inside a sub-identifier does not decode
Base128(body, acc, arcs) ==
    IF Len(body) = 0 THEN (IF acc = 0 THEN Ok(arcs) ELSE Raise("PyAsn1Error"))
    ELSE IF body[1] >= 128
         THEN Base128(Tail(body), acc * 128 + (body[1] - 128), arcs)
         ELSE Base128(Tail(body), 0, Append(arcs, acc * 128 + body[1]))

\* decoder.decode(data)[0].__str__() for a DER value with a short length: an
\* OBJECT IDENTIFIER (tag 6) prints its arcs, an OCTET STRING (tag 4) its bytes;
\* bytes after the value are the ignored second component. Values of other types
\* are not among the inputs of the model.
DecodeMechStr(data) ==
    IF Len(data) < 2 \/ data[1] \notin {4, 6} \/ data[2] >= 128
       \/ Len(data) < 2 + data[2] \/ (data[1] = 6 /\ data[2] = 0)
    THEN Raise("PyAsn1Error")
    ELSE IF data[1] = 4 THEN Ok(SubSeq(data, 3, 2 + data[2]))
    ELSE LET body == SubSeq(data, 3, 2 + data[2])
             subs == Base128(body, 0, <<>>)
         IN  IF subs.exc # "" THEN subs
             ELSE LET first == subs.val[1]
                      head == IF first < 40 THEN <<0, first>>
                              ELSE IF first < 80 THEN <<1, first - 40>>
                              ELSE <<2, first - 80>>
                  IN  Ok(Dotted(head \o Tail(subs.val)))

\* DER of 1.2.840.113554.1.2.2 (Kerberos V5)
DER_krb5 == <<6, 9, 42, 134, 72, 134, 247, 18, 1, 2, 2>>

\* DER of 1.3.6.1.5.5.2 (SPNEGO)
DER_spnego == <<6, 6, 43, 6, 1, 5, 5, 2>>

\* DER of 1.2.840.113554.1.2.3: one arc away from Kerberos V5
DER_krb5_u2u == <<6, 9, 42, 134, 72, 134, 247, 18, 1, 2, 3>>

\* bytes that are no DER value
DER_garbage == <<6, 9, 42>>

RECURSIVE ParseArcs(_, _, _)
\* ObjectIdentifier(s): the arcs of a dotted-decimal string
ParseArcs(s, acc, arcs) ==
    IF Len(s) = 0 THEN Append(arcs, acc)
    ELSE IF s[1] = 46 THEN ParseArcs(Tail(s), 0, Append(arcs, acc))
    ELSE ParseArcs(Tail(s), acc * 10 + (s[1] - 48), arcs)

RECURSIVE Septets(_)
\* the base-128 digits of n, most significant first
Septets(n) == IF n < 128 THEN <<n>> ELSE Septets(n \div 128) \o <<n % 128>>

\* one sub-identifier: the high bit set on all but the last byte
EncodeSub(n) ==
    LET d == Septets(n)
    IN  [i \in 1..Len(d) |-> IF i < Len(d) THEN d[i] + 128 ELSE d[i]]

RECURSIVE EncodeSubs(_)
EncodeSubs(subs) ==
    IF Len(subs) = 0 THEN <<>> ELSE EncodeSub(subs[1]) \o EncodeSubs(Tail(subs))

\* a variant that encodes the first two arcs as a sub-identifier each
OidHead_flat(arcs) == << arcs[1], arcs[2] >>

\* the first sub-identifier stands for the first two arcs
OidHead(arcs) == << 40 * arcs[1] + arcs[2] >>

\* encoder.encode(ObjectIdentifier(s)): tag 6, the length, the sub-identifiers
EncodeOID(s) ==
    LET arcs == ParseArcs(s, 0, <<>>)
        body == EncodeSubs(OidHead(arcs) \o SubSeq(arcs, 3, Len(arcs)))
    IN  << 6, Len(body) >> \o body

----------------------------------------------------------------------------
(* _SSH_GSSAuth: the shared base *)

\* self._krb5_mech = "1.2.840.113554.1.2.2"
krb5_mech == <<49, 46, 50, 46, 56, 52, 48, 46, 49, 49, 51, 53, 53, 52, 46, 49, 46, 50, 46, 50>>

\* struct.pack("!I", integer): four bytes, most significant first
make_uint32(integer) ==
    << (integer \div 16777216) % 256, (integer \div 65536) % 256,
       (integer \div 256) % 256, integer % 256 >>

\* str.encode(s) on a Python 2 byte string: decoded as ASCII, then encoded again;
\* a byte above 127 raises UnicodeDecodeError
str_encode(s) ==
    IF \E i \in 1..Len(s) : s[i] > 127 THEN Raise("UnicodeDecodeError") ELSE Ok(s)

\* s.find(sub): the lowest index (from 0) where sub starts in s, or -1
find(s, sub) ==
    LET hits == { i \in 0..(Len(s) - Len(sub)) : SubSeq(s, i + 1, i + Len(sub)) = sub }
    IN  IF hits = {} THEN 0 - 1 ELSE CHOOSE i \in hits : \A j \in hits : i <= j

\* a variant that writes the message number as text, str(50), not as one byte
ssh_build_mic_str_msg(sid, user, svc, am) ==
    IF IsNone(user) THEN Raise("TypeError")
    ELSE IF str_encode(Val(user) \o svc \o am).exc # ""
    THEN Raise("UnicodeDecodeError")
    ELSE Ok(make_uint32(Len(sid)) \o sid \o Decimal(MSG_USERAUTH_REQUEST)
            \o make_uint32(Len(Val(user))) \o Val(user)
            \o make_uint32(Len(svc)) \o svc
            \o make_uint32(Len(am)) \o am)

\* _ssh_build_mic(session_id, username, service, auth_method); username is
\* optional here because the callers pass self._username, which may be None
ssh_build_mic(sid, user, svc, am) ==
    IF IsNone(user) THEN Raise("TypeError")
    ELSE LET u == str_encode(Val(user))
             s == str_encode(svc)
             a == str_encode(am)
         IN  IF u.exc # "" THEN u
             ELSE IF s.exc # "" THEN s
             ELSE IF a.exc # "" THEN a
             ELSE Ok(make_uint32(Len(sid)) \o sid \o <<MSG_USERAUTH_REQUEST>>
                     \o make_uint32(Len(Val(user))) \o u.val
                     \o make_uint32(Len(svc)) \o s.val
                     \o make_uint32(Len(am)) \o a.val)

\* "client", "server": the modes of ssh_gss_oids
S_client == <<99, 108, 105, 101, 110, 116>>

S_server == <<115, 101, 114, 118, 101, 114>>

\* a variant that puts the count in front in server mode too
ssh_gss_oids_always_count(mode) ==
    LET krb5_OID == EncodeOID(krb5_mech)
    IN  make_uint32(1) \o make_uint32(Len(krb5_OID)) \o krb5_OID

\* ssh_gss_oids(mode)
ssh_gss_oids(mode) ==
    LET OIDs     == make_uint32(1)
        krb5_OID == EncodeOID(krb5_mech)
        OID_len  == make_uint32(Len(krb5_OID))
    IN  IF mode = S_server THEN OID_len \o krb5_OID
        ELSE OIDs \o OID_len \o krb5_OID

\* ssh_check_mech(desired_mech): what decoding raises, or whether the decoded value
\* prints as the Kerberos V5 OID
ssh_check_mech(desired_mech) ==
    LET mech == DecodeMechStr(desired_mech)
    IN  IF mech.exc # "" THEN mech
        ELSE IF mech.val # krb5_mech THEN Ok(FALSE)
        ELSE Ok(TRUE)

----------------------------------------------------------------------------
(* The security engine: gssapi.InitContext / gssapi.AcceptContext,          *)
(* sspi.ClientAuth / sspi.ServerAuth                                        *)

\* "host@" and "host/": the prefixes of the target name
S_host_at == <<104, 111, 115, 116, 64>>

S_host_slash == <<104, 111, 115, 116, 47>>

\* a context object of the engine: id is its identity, rounds the number of steps
\* its negotiation takes, steps the steps taken, deleg whether it holds a delegated
\* credential
\* flags are the flags it was asked for when it was created: req_flags of
\* gssapi.InitContext, scflags of sspi.ClientAuth; an acceptor is given none
NoCtx == [id |-> 0, kind |-> "", rounds |-> 0, steps |-> 0, deleg |-> FALSE, flags |-> {}]

\* a variant in which a client keeps the context it already has
NewCtx_reusing(kind, rounds) ==
    [id |-> IF kind = "init" /\ gss_ctxt # NoHandle THEN gss_ctxt ELSE engine.made + 1,
     kind |-> kind, rounds |-> rounds, steps |-> 0, deleg |-> FALSE,
     flags |-> IF kind = "init" THEN gss_flags ELSE {}]

NewCtx(kind, rounds) ==
    [id |-> engine.made + 1, kind |-> kind, rounds |-> rounds, steps |-> 0, deleg |-> FALSE,
     flags |-> IF kind = "init" THEN gss_flags ELSE {}]

\* ctx.established (GSS-API), error == 0 (SSPI)
Established(c) == c.id # 0 /\ c.steps = c.rounds

\* a step succeeds when the engine does not fail and the context is not complete yet
CanStep(c, ans) == ans.ok /\ c.steps < c.rounds

\* the context after a successful step; an acceptor may receive the delegated
\* credential with the step that completes it
Stepped(c, ans) ==
    [c EXCEPT !.steps = c.steps + 1,
              !.deleg = c.kind = "accept" /\ c.steps + 1 = c.rounds /\ ans.deleg]

\* the token a successful step hands back: always one while the negotiation
\* continues, possibly one with the completing step
TokOut == <<161>>

StepToken(c, ans) == IF Established(Stepped(c, ans)) THEN ans.final ELSE Some(TokOut)

\* the MIC the engine makes of msg under the context h
MicOf(h, msg) == <<200 + h>> \o msg

\* an answer of the engine: ok = the call does not raise, rounds = the length of the
\* negotiation of a context created now, final = the token of a completing step,
\* deleg = a completing accept step receives a delegated credential, verdict = what a
\* verify call that does not raise reports
Answers ==
    [ok : BOOLEAN, rounds : 1..MaxRounds, final : {None, Some(TokOut)},
     deleg : BOOLEAN, verdict : {"verified", "rejected"}]

\* one call into the engine, as recorded in call.trace: the function, the context it
\* is called on, the message and the token it is given, and how it ended
E(fn, h, msg, tok, out) == [fn |-> fn, h |-> h, msg |-> msg, tok |-> tok, out |-> out]

\* how a step of the context c ends
StepOut(c, ans) ==
    IF ~CanStep(c, ans) THEN "raise"
    ELSE IF Established(Stepped(c, ans)) THEN "complete"
    ELSE "continue"

\* how a sign call ends
SignOut(ans) == IF ans.ok THEN "ok" ELSE "raise"

\* how a verify call ends
VerifyOut(ans) == IF ans.ok THEN ans.verdict ELSE "raise"

\* the record of a call on the session: args are the arguments that neither the
\* session nor the trace keeps, each None or Some(byte string); kex is the gss_kex
\* argument
Returned(op, ret, trace, args, kex) ==
    [op |-> op, exc |-> "", ret |-> ret, trace |-> trace, args |-> args, kex |-> kex]

Raised(op, exc, trace, args, kex) ==
    [op |-> op, exc |-> exc, ret |-> RNone, trace |-> trace, args |-> args, kex |-> kex]

----------------------------------------------------------------------------
(* Inputs *)

AuthMethods == {S_gssapi_with_mic, S_gss_keyex}

Users == {S_alice, <<>>}

OptUsers == {None} \cup {Some(u) : u \in Users}

SessionIds == {<<7>>, <<0, 0>>}

Services == {S_ssh_userauth, S_foo}

Targets == {S_host}

RecvTokens == {None, Some(<<96>>)}

MicTokens == {<<201, 7>>}

Mechs == {None, Some(DER_krb5), Some(DER_spnego)}

----------------------------------------------------------------------------
(* Construction *)

\* a variant that asks for delegation whatever gss_deleg_creds says
GSSAPI_flags_always_deleg(deleg) == {"PROT_READY", "INTEG", "MUTUAL", "DELEG"}

\* gssapi.C_PROT_READY_FLAG, C_INTEG_FLAG, C_MUTUAL_FLAG, C_DELEG_FLAG
GSSAPI_flags(deleg) ==
    IF deleg THEN {"PROT_READY", "INTEG", "MUTUAL", "DELEG"}
    ELSE {"PROT_READY", "INTEG", "MUTUAL"}

\* sspicon.ISC_REQ_INTEGRITY | ISC_REQ_MUTUAL_AUTH | ISC_REQ_DELEGATE: a bit mask,
\* kept as the set of its bits
SSPI_flags(deleg) ==
    IF deleg THEN {"INTEGRITY", "MUTUAL_AUTH", "DELEGATE"}
    ELSE {"INTEGRITY", "MUTUAL_AUTH"}

\* what the imports at the top of the module can leave in _API
APIs == {"MIT", "SSPI", "None"}

\* os.name: "nt" on Windows, "posix" elsewhere
OsNames == {"nt", "posix"}

\* the modules of the two libraries that can be imported: python-gssapi (gssapi),
\* pywin32 (sspicon and sspi), both, a pywin32 without sspicon, or neither
Imports ==
    { {"gssapi"}, {"sspicon", "sspi"}, {"gssapi", "sspicon", "sspi"}, {"sspi"}, {} }

\* a variant that tries pywin32 first
ImportProbe_sspi_first(mods) ==
    IF {"sspicon", "sspi"} \subseteq mods THEN "SSPI"
    ELSE IF "gssapi" \in mods THEN "MIT"
    ELSE "None"

\* the import block: _API = "MIT", unless import gssapi fails; then "SSPI", unless
\* import sspicon or import sspi fails; then None
ImportProbe(mods) ==
    IF "gssapi" \in mods THEN "MIT"
    ELSE IF "sspicon" \in mods /\ "sspi" \in mods THEN "SSPI"
    ELSE "None"

\* a variant that takes any Windows process without python-gssapi to have SSPI
GSSAuth_class_by_platform(a, os) ==
    IF a = "MIT" THEN "MIT" ELSE IF os = "nt" THEN "SSPI" ELSE "none"

\* GSSAuth: the class of the object it returns, "none" when it returns None
GSSAuth_class(a, os) ==
    IF a = "MIT" THEN "MIT" ELSE IF a = "SSPI" /\ os = "nt" THEN "SSPI" ELSE "none"

\* the imports have run and GSSAuth has returned the session object:
\* _SSH_GSSAuth.__init__ and the __init__ of the two classes
Init ==
    /\ importable \in Imports
    /\ _API = ImportProbe(importable)
    /\ os_name \in OsNames
    /\ api = GSSAuth_class(_API, os_name)
    /\ api \in {"MIT", "SSPI"}
    /\ auth_method \in AuthMethods
    /\ gss_deleg_creds \in BOOLEAN
    /\ gss_flags = IF api = "MIT" THEN GSSAPI_flags(gss_deleg_creds)
                   ELSE SSPI_flags(gss_deleg_creds)
    /\ gss_host = None
    /\ username = None
    /\ session_id = None
    /\ service = S_ssh_connection
    /\ gss_ctxt = NoHandle
    /\ gss_ctxt_status = FALSE
    /\ gss_srv_ctxt = NoHandle
    /\ gss_srv_ctxt_status = FALSE
    /\ engine = [made |-> 0, inits |-> 0, cli |-> NoCtx, srv |-> NoCtx]
    /\ call = Returned("__init__", RNone, <<>>, <<>>, FALSE)

\* what no method of a session assigns: the class and the constructor arguments of
\* the object, and the globals the module reads
fixed == <<api, auth_method, gss_deleg_creds, gss_flags, _API, os_name, importable>>

----------------------------------------------------------------------------
(* _SSH_GSSAuth: setters *)

\* set_service(service)
set_service(name) ==
    /\ service' = IF find(name, S_ssh) # 0 THEN name ELSE service
    /\ call' = Returned("set_service", RNone, <<>>, <<Some(name)>>, FALSE)
    /\ UNCHANGED <<fixed, gss_host, username, session_id, gss_ctxt, gss_ctxt_status,
                   gss_srv_ctxt, gss_srv_ctxt_status, engine>>

\* set_username(username)
set_username(name) ==
    /\ username' = Some(name)
    /\ call' = Returned("set_username", RNone, <<>>, <<Some(name)>>, FALSE)
    /\ UNCHANGED <<fixed, gss_host, session_id, service, gss_ctxt, gss_ctxt_status,
                   gss_srv_ctxt, gss_srv_ctxt_status, engine>>

\* a call of ssh_gss_oids
gss_oids(mode) ==
    /\ UNCHANGED <<session, engine>>
    /\ call' = Returned("ssh_gss_oids", RBytes(ssh_gss_oids(mode)), <<>>,
                        << Some(mode) >>, FALSE)

\* a call of ssh_check_mech
check_mech(desired_mech) ==
    /\ UNCHANGED <<session, engine>>
    /\ LET r  == ssh_check_mech(desired_mech)
           ar == << Some(desired_mech) >>
       IN  call' = IF r.exc # "" THEN Raised("ssh_check_mech", r.exc, <<>>, ar, FALSE)
                   ELSE Returned("ssh_check_mech", RBool(r.val), <<>>, ar, FALSE)

\* a call of _ssh_build_mic with arguments of the caller's choice
build_mic(sid, user, svc, am) ==
    /\ UNCHANGED <<session, engine>>
    /\ LET r  == ssh_build_mic(sid, Some(user), svc, am)
           ar == << Some(sid), Some(user), Some(svc), Some(am) >>
       IN  call' = IF r.exc # "" THEN Raised("_ssh_build_mic", r.exc, <<>>, ar, FALSE)
                   ELSE Returned("_ssh_build_mic", RBytes(r.val), <<>>, ar, FALSE)

----------------------------------------------------------------------------
(* _SSH_GSSAPI *)

\* the engine calls ssh_init_sec_context makes before it looks at desired_mech
GSSAPI_init_prelude(target) ==
    << E("Name", 0, S_host_at \o target, None, "ok"), E("Context", 0, <<>>, None, "ok") >>

\* a variant that reports the context established as soon as a step returns
GSSAPI_init_status_eager(c) == c.id # 0

\* self._gss_ctxt_status = self._gss_ctxt.established
GSSAPI_init_status(c) == Established(c)

\* _SSH_GSSAPI.ssh_init_sec_context(target, desired_mech, username, recv_token)
GSSAPI_ssh_init_sec_context(target, desired_mech, user, recv_token, ans) ==
    /\ api = "MIT"
    /\ username' = user
    /\ gss_host' = Some(target)
    /\ UNCHANGED <<fixed, session_id, service, gss_srv_ctxt, gss_srv_ctxt_status>>
    /\ LET pre == GSSAPI_init_prelude(target)
           dec == IF IsNone(desired_mech) THEN Ok(krb5_mech)
                  ELSE DecodeMechStr(Val(desired_mech))
           oid == Append(pre, E("mech_from_string", 0, krb5_mech, None, "ok"))
           op  == "ssh_init_sec_context"
       IN  IF dec.exc # ""
           THEN /\ call' = Raised(op, dec.exc, pre, <<>>, FALSE)
                /\ UNCHANGED <<gss_ctxt, gss_ctxt_status, engine>>
           ELSE IF dec.val # krb5_mech
           THEN /\ call' = Raised(op, "SSHException", pre, <<>>, FALSE)
                /\ UNCHANGED <<gss_ctxt, gss_ctxt_status, engine>>
           ELSE IF IsNone(recv_token)
           THEN /\ engine.made < MaxCtx
                /\ LET c  == NewCtx("init", ans.rounds)
                       tr == oid \o << E("InitContext", c.id, S_host_at \o target, None, "ok"),
                                       E("step", c.id, <<>>, None, StepOut(c, ans)) >>
                   IN  /\ gss_ctxt' = c.id
                       /\ IF CanStep(c, ans)
                          THEN /\ engine' = [engine EXCEPT !.made = c.id,
                                                !.inits = engine.inits + 1,
                                                !.cli = Stepped(c, ans)]
                               /\ gss_ctxt_status' = GSSAPI_init_status(Stepped(c, ans))
                               /\ call' = Returned(op, ROpt(StepToken(c, ans)), tr,
                                                   <<>>, FALSE)
                          ELSE /\ engine' = [engine EXCEPT !.made = c.id,
                                                !.inits = engine.inits + 1, !.cli = c]
                               /\ UNCHANGED gss_ctxt_status
                               /\ call' = Raised(op, "GSSException", tr, <<>>, FALSE)
           ELSE IF gss_ctxt = NoHandle
           THEN /\ call' = Raised(op, "AttributeError", oid, <<>>, FALSE)
                /\ UNCHANGED <<gss_ctxt, gss_ctxt_status, engine>>
           ELSE LET c  == engine.cli
                    tr == Append(oid, E("step", c.id, <<>>, recv_token, StepOut(c, ans)))
                IN  /\ UNCHANGED gss_ctxt
                    /\ IF CanStep(c, ans)
                       THEN /\ engine' = [engine EXCEPT !.cli = Stepped(c, ans)]
                            /\ gss_ctxt_status' = GSSAPI_init_status(Stepped(c, ans))
                            /\ call' = Returned(op, ROpt(StepToken(c, ans)), tr,
                                                <<>>, FALSE)
                       ELSE /\ UNCHANGED <<engine, gss_ctxt_status>>
                            /\ call' = Raised(op, "GSSException", tr, <<>>, FALSE)

----------------------------------------------------------------------------
(* _SSH_SSPI *)

\* the buffer authorize hands back: token[0].Buffer, empty when there is no token
Buffer(tok) == IF IsNone(tok) THEN <<>> ELSE Val(tok)

\* if error == 0: self._gss_ctxt_status = True; otherwise it is left as it was
SSPI_init_status(c) == IF Established(c) THEN TRUE ELSE gss_ctxt_status

\* _SSH_SSPI.ssh_init_sec_context(target, desired_mech, username, recv_token)
SSPI_ssh_init_sec_context(target, desired_mech, user, recv_token, ans) ==
    /\ api = "SSPI"
    /\ username' = user
    /\ gss_host' = Some(target)
    /\ UNCHANGED <<fixed, session_id, service, gss_srv_ctxt, gss_srv_ctxt_status>>
    /\ LET dec == IF IsNone(desired_mech) THEN Ok(krb5_mech)
                  ELSE DecodeMechStr(Val(desired_mech))
           op  == "ssh_init_sec_context"
       IN  IF dec.exc # ""
           THEN /\ call' = Raised(op, dec.exc, <<>>, <<>>, FALSE)
                /\ UNCHANGED <<gss_ctxt, gss_ctxt_status, engine>>
           ELSE IF dec.val # krb5_mech
           THEN /\ call' = Raised(op, "SSHException", <<>>, <<>>, FALSE)
                /\ UNCHANGED <<gss_ctxt, gss_ctxt_status, engine>>
           ELSE IF IsNone(recv_token) /\ engine.made >= MaxCtx
           THEN FALSE
           ELSE IF ~IsNone(recv_token) /\ gss_ctxt = NoHandle
           THEN /\ call' = Raised(op, "AttributeError", <<>>, <<>>, FALSE)
                /\ UNCHANGED <<gss_ctxt, gss_ctxt_status, engine>>
           ELSE LET fresh == IsNone(recv_token)
                    c  == IF fresh THEN NewCtx("init", ans.rounds) ELSE engine.cli
                    e1 == IF fresh
                          THEN [engine EXCEPT !.made = c.id, !.inits = engine.inits + 1,
                                              !.cli = c]
                          ELSE engine
                    tr == (IF fresh
                           THEN << E("ClientAuth", c.id, S_host_slash \o target, None, "ok") >>
                           ELSE << >>)
                          \o << E("authorize", c.id, <<>>, recv_token, StepOut(c, ans)) >>
                IN  /\ gss_ctxt' = c.id
                    /\ IF CanStep(c, ans)
                       THEN /\ engine' = [e1 EXCEPT !.cli = Stepped(c, ans)]
                            /\ gss_ctxt_status' = SSPI_init_status(Stepped(c, ans))
                            /\ call' = IF Established(Stepped(c, ans))
                                       THEN Returned(op, RNone, tr, <<>>, FALSE)
                                       ELSE Returned(op, RBytes(Buffer(StepToken(c, ans))),
                                                     tr, <<>>, FALSE)
                       ELSE /\ engine' = e1
                            /\ UNCHANGED gss_ctxt_status
                            /\ call' = Raised(op, "sspi.error", tr, <<>>, FALSE)

----------------------------------------------------------------------------
(* _SSH_GSSAPI: MIC, accept, delegation *)

\* a variant that signs the raw session id in both modes
GSSAPI_get_mic_request_raw(sid, kex) ==
    [ctx |-> IF ~kex THEN gss_ctxt ELSE gss_srv_ctxt, field |-> Ok(sid)]

\* ssh_get_mic: the context asked to sign and the message it is given
GSSAPI_get_mic_request(sid, kex) ==
    IF ~kex
    THEN [ctx |-> gss_ctxt, field |-> ssh_build_mic(sid, username, service, auth_method)]
    ELSE [ctx |-> gss_srv_ctxt, field |-> Ok(sid)]

\* a variant that swallows a failure of get_mic and returns an empty MIC
GSSAPI_ssh_get_mic_swallowing(sid, kex, ans) ==
    /\ api = "MIT"
    /\ session_id' = Some(sid)
    /\ UNCHANGED <<fixed, gss_host, username, service, gss_ctxt, gss_ctxt_status,
                   gss_srv_ctxt, gss_srv_ctxt_status, engine>>
    /\ LET rq == GSSAPI_get_mic_request(sid, kex)
           op == "ssh_get_mic"
           tr == << E("get_mic", rq.ctx, rq.field.val, None, SignOut(ans)) >>
       IN  call' = IF rq.field.exc # "" THEN Raised(op, rq.field.exc, <<>>, <<>>, kex)
                   ELSE IF rq.ctx = NoHandle THEN Raised(op, "AttributeError", <<>>, <<>>, kex)
                   ELSE IF ans.ok
                   THEN Returned(op, RBytes(MicOf(rq.ctx, rq.field.val)), tr, <<>>, kex)
                   ELSE Returned(op, RBytes(<<>>), tr, <<>>, kex)

\* _SSH_GSSAPI.ssh_get_mic(session_id, gss_kex)
GSSAPI_ssh_get_mic(sid, kex, ans) ==
    /\ api = "MIT"
    /\ session_id' = Some(sid)
    /\ UNCHANGED <<fixed, gss_host, username, service, gss_ctxt, gss_ctxt_status,
                   gss_srv_ctxt, gss_srv_ctxt_status, engine>>
    /\ LET rq == GSSAPI_get_mic_request(sid, kex)
           op == "ssh_get_mic"
           tr == << E("get_mic", rq.ctx, rq.field.val, None, SignOut(ans)) >>
       IN  call' = IF rq.field.exc # "" THEN Raised(op, rq.field.exc, <<>>, <<>>, kex)
                   ELSE IF rq.ctx = NoHandle THEN Raised(op, "AttributeError", <<>>, <<>>, kex)
                   ELSE IF ans.ok
                   THEN Returned(op, RBytes(MicOf(rq.ctx, rq.field.val)), tr, <<>>, kex)
                   ELSE Raised(op, "GSSException", tr, <<>>, kex)

\* self._gss_srv_ctxt_status = self._gss_srv_ctxt.established
GSSAPI_accept_status(c) == Established(c)

\* _SSH_GSSAPI.ssh_accept_sec_context(hostname, recv_token, username)
GSSAPI_ssh_accept_sec_context(hostname, recv_token, user, ans) ==
    /\ api = "MIT"
    /\ gss_host' = Some(hostname)
    /\ username' = user
    /\ UNCHANGED <<fixed, session_id, service, gss_ctxt, gss_ctxt_status>>
    /\ gss_srv_ctxt = NoHandle => engine.made < MaxCtx
    /\ LET fresh == gss_srv_ctxt = NoHandle
           c  == IF fresh THEN NewCtx("accept", ans.rounds) ELSE engine.srv
           e1 == IF fresh THEN [engine EXCEPT !.made = c.id, !.srv = c] ELSE engine
           tr == (IF fresh THEN << E("AcceptContext", c.id, <<>>, None, "ok") >> ELSE << >>)
                 \o << E("step", c.id, <<>>, recv_token, StepOut(c, ans)) >>
           op == "ssh_accept_sec_context"
       IN  /\ gss_srv_ctxt' = c.id
           /\ IF CanStep(c, ans)
              THEN /\ engine' = [e1 EXCEPT !.srv = Stepped(c, ans)]
                   /\ gss_srv_ctxt_status' = GSSAPI_accept_status(Stepped(c, ans))
                   /\ call' = Returned(op, ROpt(StepToken(c, ans)), tr, <<>>, FALSE)
              ELSE /\ engine' = e1
                   /\ UNCHANGED gss_srv_ctxt_status
                   /\ call' = Raised(op, "GSSException", tr, <<>>, FALSE)

\* a variant that only uses a context whose negotiation is complete
GSSAPI_check_mic_request_established_only(sid, user) ==
    IF ~IsNone(user)
    THEN [ctx |-> IF gss_srv_ctxt_status THEN gss_srv_ctxt ELSE NoHandle,
          field |-> ssh_build_mic(sid, user, service, auth_method)]
    ELSE [ctx |-> IF gss_ctxt_status THEN gss_ctxt ELSE NoHandle, field |-> Ok(sid)]

\* ssh_check_mic: the context asked to verify and the message the MIC is checked against
GSSAPI_check_mic_request(sid, user) ==
    IF ~IsNone(user)
    THEN [ctx |-> gss_srv_ctxt, field |-> ssh_build_mic(sid, user, service, auth_method)]
    ELSE [ctx |-> gss_ctxt, field |-> Ok(sid)]

\* what verify_mic hands back when it does not raise
EngineStatus(verdict) == IF verdict = "verified" THEN 0 ELSE 1

\* ssh_check_mic returns what verify_mic returned
GSSAPI_check_mic_status(verdict) == EngineStatus(verdict)

\* a variant that keeps the stored user name when the argument is left out
GSSAPI_ssh_check_mic_keeping_user(mic_token, sid, user, ans) ==
    /\ api = "MIT"
    /\ session_id' = Some(sid)
    /\ username' = IF IsNone(user) THEN username ELSE user
    /\ UNCHANGED <<fixed, gss_host, service, gss_ctxt, gss_ctxt_status,
                   gss_srv_ctxt, gss_srv_ctxt_status, engine>>
    /\ LET rq == GSSAPI_check_mic_request(sid, user)
           op == "ssh_check_mic"
           tr == << E("verify_mic", rq.ctx, rq.field.val, Some(mic_token), VerifyOut(ans)) >>
           ar == << Some(mic_token) >>
       IN  call' = IF rq.field.exc # "" THEN Raised(op, rq.field.exc, <<>>, ar, FALSE)
                   ELSE IF rq.ctx = NoHandle THEN Raised(op, "AttributeError", <<>>, ar, FALSE)
                   ELSE IF ans.ok
                   THEN Returned(op, RInt(GSSAPI_check_mic_status(ans.verdict)), tr, ar, FALSE)
                   ELSE Raised(op, "GSSException", tr, ar, FALSE)

\* _SSH_GSSAPI.ssh_check_mic(mic_token, session_id, username)
GSSAPI_ssh_check_mic(mic_token, sid, user, ans) ==
    /\ api = "MIT"
    /\ session_id' = Some(sid)
    /\ username' = user
    /\ UNCHANGED <<fixed, gss_host, service, gss_ctxt, gss_ctxt_status,
                   gss_srv_ctxt, gss_srv_ctxt_status, engine>>
    /\ LET rq == GSSAPI_check_mic_request(sid, user)
           op == "ssh_check_mic"
           tr == << E("verify_mic", rq.ctx, rq.field.val, Some(mic_token), VerifyOut(ans)) >>
           ar == << Some(mic_token) >>
       IN  call' = IF rq.field.exc # "" THEN Raised(op, rq.field.exc, <<>>, ar, FALSE)
                   ELSE IF rq.ctx = NoHandle THEN Raised(op, "AttributeError", <<>>, ar, FALSE)
                   ELSE IF ans.ok
                   THEN Returned(op, RInt(GSSAPI_check_mic_status(ans.verdict)), tr, ar, FALSE)
                   ELSE Raised(op, "GSSException", tr, ar, FALSE)

\* _SSH_GSSAPI.credentials_delegated
GSSAPI_credentials_delegated ==
    /\ api = "MIT"
    /\ UNCHANGED <<session, engine>>
    /\ call' = IF gss_srv_ctxt = NoHandle
               THEN Raised("credentials_delegated", "AttributeError", <<>>, <<>>, FALSE)
               ELSE Returned("credentials_delegated", RBool(engine.srv.deleg),
                             << E("delegated_cred", gss_srv_ctxt, <<>>, None, "ok") >>, <<>>, FALSE)

----------------------------------------------------------------------------
(* _SSH_SSPI: MIC, accept, delegation *)

\* a variant that signs with the client context in key-exchange mode too
SSPI_get_mic_request_client_kex(sid, kex) ==
    IF ~kex
    THEN [ctx |-> gss_ctxt, field |-> ssh_build_mic(sid, username, service, auth_method)]
    ELSE [ctx |-> gss_ctxt, field |-> Ok(sid)]

\* ssh_get_mic: the context asked to sign and the message it is given
SSPI_get_mic_request(sid, kex) ==
    IF ~kex
    THEN [ctx |-> gss_ctxt, field |-> ssh_build_mic(sid, username, service, auth_method)]
    ELSE [ctx |-> gss_srv_ctxt, field |-> Ok(sid)]

\* _SSH_SSPI.ssh_get_mic(session_id, gss_kex)
SSPI_ssh_get_mic(sid, kex, ans) ==
    /\ api = "SSPI"
    /\ session_id' = Some(sid)
    /\ UNCHANGED <<fixed, gss_host, username, service, gss_ctxt, gss_ctxt_status,
                   gss_srv_ctxt, gss_srv_ctxt_status, engine>>
    /\ LET rq == SSPI_get_mic_request(sid, kex)
           op == "ssh_get_mic"
           tr == << E("sign", rq.ctx, rq.field.val, None, SignOut(ans)) >>
       IN  call' = IF rq.field.exc # "" THEN Raised(op, rq.field.exc, <<>>, <<>>, kex)
                   ELSE IF rq.ctx = NoHandle THEN Raised(op, "AttributeError", <<>>, <<>>, kex)
                   ELSE IF ans.ok
                   THEN Returned(op, RBytes(MicOf(rq.ctx, rq.field.val)), tr, <<>>, kex)
                   ELSE Raised(op, "sspi.error", tr, <<>>, kex)

\* a variant that writes the flag on every call, from what the engine reports
SSPI_accept_status_every_call(c) == Established(c)

\* if error == 0: self._gss_srv_ctxt_status = True; otherwise it is left as it was
SSPI_accept_status(c) == IF Established(c) THEN TRUE ELSE gss_srv_ctxt_status

\* _SSH_SSPI.ssh_accept_sec_context(hostname, username, recv_token): a ServerAuth
\* is made on every call
SSPI_ssh_accept_sec_context(hostname, user, recv_token, ans) ==
    /\ api = "SSPI"
    /\ gss_host' = Some(hostname)
    /\ username' = user
    /\ UNCHANGED <<fixed, session_id, service, gss_ctxt, gss_ctxt_status>>
    /\ engine.made < MaxCtx
    /\ LET c  == NewCtx("accept", ans.rounds)
           e1 == [engine EXCEPT !.made = c.id, !.srv = c]
           tr == << E("ServerAuth", c.id, S_host_slash \o hostname, None, "ok"),
                    E("authorize", c.id, <<>>, recv_token, StepOut(c, ans)) >>
           op == "ssh_accept_sec_context"
       IN  /\ gss_srv_ctxt' = c.id
           /\ IF CanStep(c, ans)
              THEN /\ engine' = [e1 EXCEPT !.srv = Stepped(c, ans)]
                   /\ gss_srv_ctxt_status' = SSPI_accept_status(Stepped(c, ans))
                   /\ call' = IF Established(Stepped(c, ans))
                              THEN Returned(op, RNone, tr, <<>>, FALSE)
                              ELSE Returned(op, RBytes(Buffer(StepToken(c, ans))), tr,
                                            <<>>, FALSE)
              ELSE /\ engine' = e1
                   /\ UNCHANGED gss_srv_ctxt_status
                   /\ call' = Raised(op, "sspi.error", tr, <<>>, FALSE)

\* a variant that tests the truth value of username, so that an empty user name
\* selects the key-exchange branch
SSPI_check_mic_request_truthy(sid, user) ==
    IF ~IsNone(user) /\ Val(user) # <<>>
    THEN [ctx |-> gss_srv_ctxt, field |-> ssh_build_mic(sid, user, service, auth_method)]
    ELSE [ctx |-> gss_ctxt, field |-> Ok(sid)]

\* ssh_check_mic: the context asked to verify and the message the MIC is checked against
SSPI_check_mic_request(sid, user) ==
    IF ~IsNone(user)
    THEN [ctx |-> gss_srv_ctxt, field |-> ssh_build_mic(sid, user, service, auth_method)]
    ELSE [ctx |-> gss_ctxt, field |-> Ok(sid)]

\* mic_status = 0 after verify, whatever verify handed back
SSPI_check_mic_status(verdict) == 0

\* _SSH_SSPI.ssh_check_mic(mic_token, session_id, username)
SSPI_ssh_check_mic(mic_token, sid, user, ans) ==
    /\ api = "SSPI"
    /\ session_id' = Some(sid)
    /\ username' = user
    /\ UNCHANGED <<fixed, gss_host, service, gss_ctxt, gss_ctxt_status,
                   gss_srv_ctxt, gss_srv_ctxt_status, engine>>
    /\ LET rq == SSPI_check_mic_request(sid, user)
           op == "ssh_check_mic"
           tr == << E("verify", rq.ctx, rq.field.val, Some(mic_token), VerifyOut(ans)) >>
           ar == << Some(mic_token) >>
       IN  call' = IF rq.field.exc # "" THEN Raised(op, rq.field.exc, <<>>, ar, FALSE)
                   ELSE IF rq.ctx = NoHandle THEN Raised(op, "AttributeError", <<>>, ar, FALSE)
                   ELSE IF ans.ok
                   THEN Returned(op, RInt(SSPI_check_mic_status(ans.verdict)), tr, ar, FALSE)
                   ELSE Raised(op, "sspi.error", tr, ar, FALSE)

\* the value of (flags & ISC_REQ_DELEGATE) and (status or flags)
SSPI_delegated_value ==
    IF gss_flags \cap {"DELEGATE"} = {} THEN RFlags({})
    ELSE IF gss_srv_ctxt_status THEN RBool(TRUE)
    ELSE RFlags(gss_flags)

\* _SSH_SSPI.credentials_delegated
SSPI_credentials_delegated ==
    /\ api = "SSPI"
    /\ UNCHANGED <<session, engine>>
    /\ call' = Returned("credentials_delegated", SSPI_delegated_value, <<>>, <<>>, FALSE)

----------------------------------------------------------------------------
(* save_client_creds, GSSAuth *)

\* _SSH_GSSAPI.save_client_creds: raise NotImplementedError
GSSAPI_save_client_creds_outcome(client_token) == Raise("NotImplementedError")

\* _SSH_GSSAPI.save_client_creds(client_token)
GSSAPI_save_client_creds(client_token) ==
    /\ api = "MIT"
    /\ UNCHANGED <<session, engine>>
    /\ LET r == GSSAPI_save_client_creds_outcome(client_token)
           op == "save_client_creds"
       IN  call' = IF r.exc # "" THEN Raised(op, r.exc, <<>>, <<client_token>>, FALSE)
                   ELSE Returned(op, RNone, <<>>, <<client_token>>, FALSE)

\* a variant that takes an empty token as nothing to save and returns
SSPI_save_client_creds_outcome_lenient(client_token) ==
    IF client_token = Some(<<>>) THEN Ok(<<>>) ELSE Raise("NotImplementedError")

\* _SSH_SSPI.save_client_creds: raise NotImplementedError
SSPI_save_client_creds_outcome(client_token) == Raise("NotImplementedError")

\* _SSH_SSPI.save_client_creds(client_token)
SSPI_save_client_creds(client_token) ==
    /\ api = "SSPI"
    /\ UNCHANGED <<session, engine>>
    /\ LET r == SSPI_save_client_creds_outcome(client_token)
           op == "save_client_creds"
       IN  call' = IF r.exc # "" THEN Raised(op, r.exc, <<>>, <<client_token>>, FALSE)
                   ELSE Returned(op, RNone, <<>>, <<client_token>>, FALSE)

\* the object GSSAuth returns: its class, its _auth_method, its _gss_deleg_creds
\* (1 or 0) and its _gss_flags
RObject(cls, am, deleg) ==
    [t |-> cls, b |-> am, n |-> IF deleg THEN 1 ELSE 0,
     f |-> IF cls = "MIT" THEN GSSAPI_flags(deleg) ELSE SSPI_flags(deleg)]

\* the class of a value GSSAuth returned
ClassOf(r) == IF r = RNone THEN "none" ELSE r.t

\* a boolean argument as kept in call.args
ArgBool(v) == Some(<< IF v THEN 1 ELSE 0 >>)

\* an optional boolean argument as kept in call.args: None when it is left out
ArgOptBool(o) == IF IsNone(o) THEN None ELSE ArgBool(Val(o))

\* gss_deleg_creds=True: the value of the parameter when the caller leaves it out
GSSAuth_deleg(o) == IF IsNone(o) THEN TRUE ELSE Val(o)

\* a variant that probes for the libraries on every call
GSSAuth_reprobing(am, deleg) ==
    /\ _API' \in APIs
    /\ UNCHANGED <<api, auth_method, gss_deleg_creds, gss_flags, gss_host, username,
                   session_id, service, gss_ctxt, gss_ctxt_status, gss_srv_ctxt,
                   gss_srv_ctxt_status, os_name, importable, engine>>
    /\ LET cls == GSSAuth_class(_API', os_name)
       IN  call' = Returned("GSSAuth",
                            IF cls = "none" THEN RNone
                            ELSE RObject(cls, am, GSSAuth_deleg(deleg)),
                            <<>>, << Some(am), ArgOptBool(deleg) >>, FALSE)

\* GSSAuth(auth_method, gss_deleg_creds=True): a further call in the process, deleg
\* being None when the caller leaves the second argument out; the object it
\* returns is a new one, the session followed here stays as it is
GSSAuth(am, deleg) ==
    /\ UNCHANGED <<session, engine>>
    /\ LET cls == GSSAuth_class(_API, os_name)
       IN  call' = Returned("GSSAuth",
                            IF cls = "none" THEN RNone
                            ELSE RObject(cls, am, GSSAuth_deleg(deleg)),
                            <<>>, << Some(am), ArgOptBool(deleg) >>, FALSE)

----------------------------------------------------------------------------
(* The session driven by its caller *)

\* the answers of the engine that differ in their effect on a call that steps the
\* context c (a context created by the call when fresh): rounds is read when a
\* context is created, final and deleg when the step completes the negotiation
StepAnswers(kind, fresh, c) ==
    { a \in Answers :
        LET c2   == IF fresh THEN NewCtx(kind, a.rounds) ELSE c
            done == CanStep(c2, a) /\ Established(Stepped(c2, a))
        IN  /\ a.verdict = "verified"
            /\ ~fresh => a.rounds = 1
            /\ ~done => IsNone(a.final) /\ ~a.deleg
            /\ kind = "init" => ~a.deleg }

\* the answers that differ in their effect on a call that signs
SignAnswers ==
    { a \in Answers : a.rounds = 1 /\ IsNone(a.final) /\ ~a.deleg /\ a.verdict = "verified" }

\* the answers that differ in their effect on a call that verifies
VerifyAnswers ==
    { a \in Answers : a.rounds = 1 /\ IsNone(a.final) /\ ~a.deleg
                      /\ (~a.ok => a.verdict = "verified") }

SetService == \E name \in Services : set_service(name)

SetUsername == \E name \in Users : set_username(name)

InitSecContext ==
    \E target \in Targets, mech \in Mechs, user \in OptUsers, tok \in RecvTokens :
        \E ans \in StepAnswers("init", IsNone(tok), engine.cli) :
            \/ GSSAPI_ssh_init_sec_context(target, mech, user, tok, ans)
            \/ SSPI_ssh_init_sec_context(target, mech, user, tok, ans)

AcceptSecContext ==
    \E hostname \in Targets, user \in OptUsers, tok \in RecvTokens :
        \/ \E ans \in StepAnswers("accept", gss_srv_ctxt = NoHandle, engine.srv) :
              GSSAPI_ssh_accept_sec_context(hostname, tok, user, ans)
        \/ \E ans \in StepAnswers("accept", TRUE, engine.srv) :
              SSPI_ssh_accept_sec_context(hostname, user, tok, ans)

GetMic ==
    \E sid \in SessionIds, kex \in BOOLEAN, ans \in SignAnswers :
        \/ GSSAPI_ssh_get_mic(sid, kex, ans)
        \/ SSPI_ssh_get_mic(sid, kex, ans)

CheckMic ==
    \E mic \in MicTokens, sid \in SessionIds, user \in OptUsers, ans \in VerifyAnswers :
        \/ GSSAPI_ssh_check_mic(mic, sid, user, ans)
        \/ SSPI_ssh_check_mic(mic, sid, user, ans)

CredentialsDelegated ==
    \/ GSSAPI_credentials_delegated
    \/ SSPI_credentials_delegated

Next ==
    \/ SetService
    \/ SetUsername
    \/ InitSecContext
    \/ AcceptSecContext
    \/ GetMic
    \/ CheckMic
    \/ CredentialsDelegated

Spec == Init /\ [][Next]_vars

----------------------------------------------------------------------------
(* The shared base alone: the setters and the MIC field, on wider inputs *)

BaseServices == {S_ssh_userauth, S_ssh, S_foo, S_xssh_y, <<>>}

BaseUsers == {S_alice, <<>>, S_e_acute}

\* a session id of 32 zero bytes: the size of a SHA-256 exchange hash
S_sid32 == [i \in 1..32 |-> 0]

BaseSessionIds == {<<>>, <<7>>, <<0, 0>>, S_sid32}

BaseSetService == \E name \in BaseServices : set_service(name)

BaseSetUsername == \E name \in BaseUsers : set_username(name)

BaseBuildMic ==
    \E sid \in BaseSessionIds, user \in BaseUsers,
       svc \in {S_ssh_connection, S_foo}, am \in AuthMethods :
        build_mic(sid, user, svc, am)

NextBase ==
    \/ BaseSetService
    \/ BaseSetUsername
    \/ BaseBuildMic

SpecBase == Init /\ [][NextBase]_vars

----------------------------------------------------------------------------
(* The negotiation alone: init, accept and the delegation query *)

NegUsers == {Some(S_alice)}

\* one process for each class: Windows with python-gssapi, Windows with pywin32
OneProcessEach == os_name = "nt" /\ importable \in {{"gssapi"}, {"sspicon", "sspi"}}

InitNeg == Init /\ auth_method = S_gssapi_with_mic /\ OneProcessEach

NegInitSecContext ==
    \E target \in Targets, mech \in Mechs, user \in NegUsers, tok \in RecvTokens :
        \E ans \in StepAnswers("init", IsNone(tok), engine.cli) :
            \/ GSSAPI_ssh_init_sec_context(target, mech, user, tok, ans)
            \/ SSPI_ssh_init_sec_context(target, mech, user, tok, ans)

NegAcceptSecContext ==
    \E hostname \in Targets, user \in NegUsers, tok \in {Some(<<96>>)} :
        \/ \E ans \in StepAnswers("accept", gss_srv_ctxt = NoHandle, engine.srv) :
              GSSAPI_ssh_accept_sec_context(hostname, tok, user, ans)
        \/ \E ans \in StepAnswers("accept", TRUE, engine.srv) :
              SSPI_ssh_accept_sec_context(hostname, user, tok, ans)

NextNeg ==
    \/ NegInitSecContext
    \/ NegAcceptSecContext
    \/ CredentialsDelegated

SpecNeg == InitNeg /\ [][NextNeg]_vars

----------------------------------------------------------------------------
(* The MIC calls, on contexts whose first step has been made: established at  *)
(* once, or with the longest negotiation still under way                     *)

InitMic == Init /\ gss_deleg_creds /\ OneProcessEach

MicInitSecContext ==
    \E target \in Targets :
        \E ans \in StepAnswers("init", TRUE, engine.cli) :
            /\ ans.ok /\ ans.rounds \in {1, MaxRounds}
            /\ \/ GSSAPI_ssh_init_sec_context(target, None, None, None, ans)
               \/ SSPI_ssh_init_sec_context(target, None, None, None, ans)

MicAcceptSecContext ==
    \E hostname \in Targets, tok \in {Some(<<96>>)} :
        \/ \E ans \in StepAnswers("accept", TRUE, engine.srv) :
              /\ ans.ok /\ ~ans.deleg /\ ans.rounds \in {1, MaxRounds}
              /\ gss_srv_ctxt = NoHandle
              /\ GSSAPI_ssh_accept_sec_context(hostname, tok, None, ans)
        \/ \E ans \in StepAnswers("accept", TRUE, engine.srv) :
              /\ ans.ok /\ ~ans.deleg /\ ans.rounds \in {1, MaxRounds}
              /\ SSPI_ssh_accept_sec_context(hostname, None, tok, ans)

MicSetService == \E name \in {S_foo} : set_service(name)

NextMic ==
    \/ MicSetService
    \/ SetUsername
    \/ MicInitSecContext
    \/ MicAcceptSecContext
    \/ GetMic
    \/ CheckMic

SpecMic == InitMic /\ [][NextMic]_vars

----------------------------------------------------------------------------
(* save_client_creds before, during and after a negotiation *)

SaveTokens == {None, Some(<<>>), Some(<<96>>)}

SaveClientCreds ==
    \E client_token \in SaveTokens :
        \/ GSSAPI_save_client_creds(client_token)
        \/ SSPI_save_client_creds(client_token)

NextSave ==
    \/ NegInitSecContext
    \/ NegAcceptSecContext
    \/ SaveClientCreds

SpecSave == InitNeg /\ [][NextSave]_vars

----------------------------------------------------------------------------
(* The mechanism codec: ssh_gss_oids and ssh_check_mech on sessions whose     *)
(* service and user name change                                               *)

\* an OCTET STRING that holds the text "1.2.840.113554.1.2.2"
DER_octets_krb5 == << 4, Len(krb5_mech) >> \o krb5_mech

\* the bytes of s after the first n
Skip(s, n) == SubSeq(s, n + 1, Len(s))

\* the DER segment of what ssh_gss_oids returns: behind the count and the length in
\* client mode, behind the length in server mode
OidSegment(mode) == Skip(ssh_gss_oids(mode), IF mode = S_server THEN 4 ELSE 8)

CodecModes == {S_client, S_server, <<>>}

CodecMechs ==
    {OidSegment(S_client), OidSegment(S_server), DER_krb5, DER_krb5 \o <<0>>, DER_spnego,
     DER_krb5_u2u, DER_garbage, DER_octets_krb5, <<>>}

CodecGssOids == \E mode \in CodecModes : gss_oids(mode)

CodecCheckMech == \E desired_mech \in CodecMechs : check_mech(desired_mech)

NextCodec ==
    \/ BaseSetService
    \/ BaseSetUsername
    \/ CodecGssOids
    \/ CodecCheckMech

SpecCodec == Init /\ [][NextCodec]_vars

----------------------------------------------------------------------------
(* The selection of the backend: GSSAuth called again and again in a process, *)
(* between the calls on the session its first call returned                  *)

\* the imports have run and GSSAuth has returned None: there is no session object
InitNoSession ==
    /\ importable \in Imports
    /\ _API = ImportProbe(importable)
    /\ os_name \in OsNames
    /\ api = GSSAuth_class(_API, os_name)
    /\ api = "none"
    /\ auth_method = <<>>
    /\ gss_deleg_creds = FALSE
    /\ gss_flags = {}
    /\ gss_host = None
    /\ username = None
    /\ session_id = None
    /\ service = <<>>
    /\ gss_ctxt = NoHandle
    /\ gss_ctxt_status = FALSE
    /\ gss_srv_ctxt = NoHandle
    /\ gss_srv_ctxt_status = FALSE
    /\ engine = [made |-> 0, inits |-> 0, cli |-> NoCtx, srv |-> NoCtx]
    /\ call = Returned("GSSAuth", RNone, <<>>, <<>>, FALSE)

InitSel == (Init /\ gss_deleg_creds) \/ InitNoSession

SelAuthMethods == AuthMethods \cup {S_foo}

SelGSSAuth ==
    \E am \in SelAuthMethods, deleg \in {None, Some(TRUE), Some(FALSE)} : GSSAuth(am, deleg)

SelSetService == api # "none" /\ MicSetService

SelSetUsername == api # "none" /\ \E name \in {S_alice} : set_username(name)

NextSel ==
    \/ SelGSSAuth
    \/ SelSetService
    \/ SelSetUsername
    \/ MicInitSecContext
    \/ MicAcceptSecContext

SpecSel == InitSel /\ [][NextSel]_vars

----------------------------------------------------------------------------
(* The client role alone: ssh_init_sec_context called again and again, with and *)
(* without recv_token, on sessions with and without a client context          *)

NextCli == NegInitSecContext

SpecCli == InitNeg /\ [][NextCli]_vars

----------------------------------------------------------------------------
(* The stored user name: set_username against the calls that take a username  *)
(* argument, each made with the argument given and with it left out          *)

\* "bob": the user name only ssh_init_sec_context is given
S_bob == <<98, 111, 98>>

UserSetUsername == \E name \in {S_alice} : set_username(name)

UserInitSecContext ==
    \E target \in Targets, mech \in {None, Some(DER_spnego)}, user \in {None, Some(S_bob)} :
        \E ans \in StepAnswers("init", TRUE, engine.cli) :
            /\ ans.ok
            /\ \/ GSSAPI_ssh_init_sec_context(target, mech, user, None, ans)
               \/ SSPI_ssh_init_sec_context(target, mech, user, None, ans)

UserAcceptSecContext ==
    \E hostname \in Targets, user \in {None, Some(S_alice)}, tok \in {Some(<<96>>)} :
        \/ \E ans \in StepAnswers("accept", gss_srv_ctxt = NoHandle, engine.srv) :
              /\ ans.ok /\ ~ans.deleg
              /\ GSSAPI_ssh_accept_sec_context(hostname, tok, user, ans)
        \/ \E ans \in StepAnswers("accept", TRUE, engine.srv) :
              /\ ans.ok /\ ~ans.deleg
              /\ SSPI_ssh_accept_sec_context(hostname, user, tok, ans)

UserGetMic ==
    \E sid \in {<<7>>}, kex \in BOOLEAN, ans \in SignAnswers :
        \/ GSSAPI_ssh_get_mic(sid, kex, ans)
        \/ SSPI_ssh_get_mic(sid, kex, ans)

UserCheckMic ==
    \E mic \in MicTokens, sid \in {<<7>>}, user \in {None, Some(S_alice)},
       ans \in VerifyAnswers :
        \/ GSSAPI_ssh_check_mic(mic, sid, user, ans)
        \/ SSPI_ssh_check_mic(mic, sid, user, ans)

NextUser ==
    \/ UserSetUsername
    \/ UserInitSecContext
    \/ UserAcceptSecContext
    \/ UserGetMic
    \/ UserCheckMic

SpecUser == InitNeg /\ [][NextUser]_vars

----------------------------------------------------------------------------
(* Failing engine calls: negotiation and MIC calls whose step, sign or verify  *)
(* may raise, for one user and one session id                                 *)

ErrGetMic ==
    \E sid \in {<<7>>}, kex \in BOOLEAN, ans \in SignAnswers :
        \/ GSSAPI_ssh_get_mic(sid, kex, ans)
        \/ SSPI_ssh_get_mic(sid, kex, ans)

ErrCheckMic ==
    \E mic \in MicTokens, sid \in {<<7>>}, user \in {None} \cup NegUsers,
       ans \in VerifyAnswers :
        \/ GSSAPI_ssh_check_mic(mic, sid, user, ans)
        \/ SSPI_ssh_check_mic(mic, sid, user, ans)

ErrInitSecContext ==
    \E target \in Targets, user \in NegUsers, tok \in RecvTokens :
        \E ans \in StepAnswers("init", IsNone(tok), engine.cli) :
            \/ GSSAPI_ssh_init_sec_context(target, None, user, tok, ans)
            \/ SSPI_ssh_init_sec_context(target, None, user, tok, ans)

NextErr ==
    \/ ErrInitSecContext
    \/ NegAcceptSecContext
    \/ ErrGetMic
    \/ ErrCheckMic

SpecErr == InitMic /\ [][NextErr]_vars

----------------------------------------------------------------------------
(* Properties *)

StartsWith(s, prefix) == Len(s) >= Len(prefix) /\ SubSeq(s, 1, Len(prefix)) = prefix

\* the 4-byte big-endian count of the bytes of x, followed by x
LengthPrefixed(x) ==
    << (Len(x) \div (256 * 256 * 256)) % 256, (Len(x) \div (256 * 256)) % 256,
       (Len(x) \div 256) % 256, Len(x) % 256 >> \o x

\* C1: on both backends ssh_check_mic returns 0 exactly when the engine's verify
\* call reported the MIC verified; a verify that reports rejection never leads to
\* the result 0.
C1_CheckMicFollowsVerify ==
    (call.op = "ssh_check_mic" /\ call.exc = "")
        => (call.ret = RInt(0) <=> call.trace[1].out = "verified")

\* C2: for every session_id, username, service and auth_method, _ssh_build_mic
\* returns uint32(len(session_id)), session_id, the byte 50, and then username,
\* service and auth_method, each behind the 4-byte big-endian count of its bytes.
C2_BuildMicLayout ==
    call.op = "_ssh_build_mic"
        => /\ call.exc = ""
           /\ call.ret = RBytes(LengthPrefixed(Val(call.args[1])) \o <<50>>
                                \o LengthPrefixed(Val(call.args[2]))
                                \o LengthPrefixed(Val(call.args[3]))
                                \o LengthPrefixed(Val(call.args[4])))

\* C3: set_service(name) sets the service to name when name begins with "ssh-" and
\* leaves it alone otherwise, so the service always begins with "ssh-".
C3_SetServiceKeepsPrefix ==
    /\ StartsWith(service, S_ssh)
    /\ (call.op = "set_service" /\ StartsWith(Val(call.args[1]), S_ssh))
           => service = Val(call.args[1])

\* C4: an ssh_init_sec_context call that fails with the unsupported-mechanism error
\* has made no call into the engine, and leaves the client context and its
\* established flag as they were.
C4_UnsupportedMechBeforeBackend ==
    [][ (call'.op = "ssh_init_sec_context" /\ call'.exc = "SSHException")
            => /\ call'.trace = <<>>
               /\ gss_ctxt' = gss_ctxt
               /\ gss_ctxt_status' = gss_ctxt_status
               /\ engine' = engine ]_vars

\* C5: in the first client negotiation of a session, which the engine completes in
\* rounds steps, the client established flag is false after construction and after
\* each of the first rounds - 1 calls that return, and true from the return of call
\* number rounds.
C5_EstablishedAtNthCall ==
    engine.inits <= 1
        => (gss_ctxt_status <=> (engine.inits = 1 /\ engine.cli.steps = engine.cli.rounds))

\* C5 witness: a two-round first negotiation has just completed with its second call.
C5_Witness ==
    /\ call.op = "ssh_init_sec_context" /\ call.exc = ""
    /\ engine.inits = 1 /\ engine.cli.rounds = 2 /\ engine.cli.steps = 2
    /\ gss_ctxt_status

\* C6: a session never holds both a client-side and a server-side context.
C6_OneRole == ~(gss_ctxt # NoHandle /\ gss_srv_ctxt # NoHandle)

\* C7: an ssh_accept_sec_context call on a session that holds an acceptor context
\* whose negotiation has begun and is not yet established creates no context: it
\* gives its token to the context held, which stays the one the session holds.
C7_AcceptReusesContext ==
    [][ (call'.op = "ssh_accept_sec_context" /\ gss_srv_ctxt # NoHandle
         /\ engine.srv.steps >= 1 /\ ~Established(engine.srv))
            => /\ gss_srv_ctxt' = gss_srv_ctxt
               /\ \A i \in 1..Len(call'.trace) :
                      /\ call'.trace[i].fn \notin {"AcceptContext", "ServerAuth"}
                      /\ call'.trace[i].h = gss_srv_ctxt ]_vars

\* C8: credentials_delegated is true only when the server-side context is
\* established and the engine holds a delegated credential for it.
C8_DelegatedOnlyWhenReported ==
    (call.op = "credentials_delegated" /\ call.exc = "" /\ Truthy(call.ret))
        => /\ gss_srv_ctxt_status
           /\ Established(engine.srv)
           /\ engine.srv.deleg

\* C9: an ssh_get_mic call that returns has asked the engine exactly once to sign:
\* without gss_kex the MIC field built from the session id and the stored username,
\* service and auth method, under the client context; with gss_kex the raw session
\* id. It returns the MIC the engine made. When the MIC field cannot be built,
\* nothing is signed.
C9_GetMicSigns ==
    call.op = "ssh_get_mic"
        => /\ call.exc = ""
               => /\ Len(call.trace) = 1
                  /\ call.trace[1].fn \in {"get_mic", "sign"}
                  /\ call.ret = RBytes(MicOf(call.trace[1].h, call.trace[1].msg))
                  /\ IF ~call.kex
                     THEN /\ call.trace[1].h = gss_ctxt
                          /\ Ok(call.trace[1].msg)
                                 = ssh_build_mic(Val(session_id), username, service,
                                                 auth_method)
                     ELSE call.trace[1].msg = Val(session_id)
           /\ call.exc \in {"TypeError", "UnicodeDecodeError"} => call.trace = <<>>

\* C9 witness: a MIC was returned for a user-authentication request with a stored
\* user name and a service set by set_service.
C9_Witness ==
    /\ call.op = "ssh_get_mic" /\ call.exc = "" /\ ~call.kex
    /\ username = Some(S_alice) /\ service = S_foo

\* C10: an ssh_check_mic call that reaches the engine verifies the given MIC token:
\* with a username (even an empty one) against the MIC field rebuilt from the
\* session id, that username and the stored service and auth method, under the
\* server context; without a username against the raw session id under the client
\* context. With the context of the chosen branch present and the field built, the
\* engine is reached.
C10_CheckMicVerifies ==
    call.op = "ssh_check_mic"
        => /\ call.trace # <<>>
               => /\ Len(call.trace) = 1
                  /\ call.trace[1].fn \in {"verify_mic", "verify"}
                  /\ call.trace[1].tok = call.args[1]
                  /\ IF ~IsNone(username)
                     THEN /\ call.trace[1].h = gss_srv_ctxt
                          /\ Ok(call.trace[1].msg)
                                 = ssh_build_mic(Val(session_id), username, service,
                                                 auth_method)
                     ELSE /\ call.trace[1].h = gss_ctxt
                          /\ call.trace[1].msg = Val(session_id)
           /\ call.trace = <<>>
               => IF IsNone(username) THEN gss_ctxt = NoHandle ELSE gss_srv_ctxt = NoHandle

\* C10 witness: a MIC was verified for an empty, but supplied, user name on a
\* session that holds a client context too.
C10_Witness ==
    /\ call.op = "ssh_check_mic" /\ call.exc = ""
    /\ username = Some(<<>>) /\ gss_ctxt # NoHandle /\ gss_srv_ctxt # NoHandle

\* C11: save_client_creds fails with NotImplementedError for every token, the empty
\* one included, on both backends and in every state of the session, and leaves
\* the session and the engine's contexts as they were.
C11_SaveClientCredsNotImplemented ==
    [][ call'.op = "save_client_creds"
            => /\ call'.exc = "NotImplementedError"
               /\ session' = session
               /\ engine' = engine ]_vars

\* C11 witness: an empty token was refused on a session whose first acceptor
\* negotiation is established and whose client negotiation is still under way.
C11_Witness ==
    /\ call.op = "save_client_creds" /\ call.exc = "NotImplementedError"
    /\ call.args = << Some(<<>>) >>
    /\ gss_srv_ctxt_status
    /\ gss_ctxt # NoHandle /\ ~gss_ctxt_status

\* C12: in a process where neither gssapi nor sspi could be imported, GSSAuth
\* returns None for every auth_method and gss_deleg_creds, and does not raise.
C12_NoBackendReturnsNone ==
    (call.op = "GSSAuth" /\ _API = "None")
        => call.exc = "" /\ call.ret = RNone

\* C12 witness: on Windows, without either library, GSSAuth was called with an
\* unknown auth method and with delegation asked for, and returned None.
C12_Witness ==
    /\ call.op = "GSSAuth" /\ _API = "None" /\ os_name = "nt"
    /\ call.args = << Some(S_foo), ArgBool(TRUE) >>
    /\ call.ret = RNone

\* C13: no call of GSSAuth and no call on a session changes _API (or os.name), and
\* every call of GSSAuth selects what the first call of the process selected: the
\* same class, or None again.
C13_BackendFixedAtStart ==
    [][ /\ _API' = _API
        /\ os_name' = os_name
        /\ importable' = importable
        /\ call'.op = "GSSAuth" => ClassOf(call'.ret) = api ]_vars

\* C13 witness: GSSAuth returned an _SSH_SSPI object again after the first session
\* had completed a client negotiation and accepted a server one.
C13_Witness ==
    /\ call.op = "GSSAuth" /\ ClassOf(call.ret) = "SSPI" /\ api = "SSPI"
    /\ gss_ctxt_status /\ gss_srv_ctxt # NoHandle /\ service = S_foo

\* C14: ssh_gss_oids("client") is uint32(1), uint32(len(DER_OID)), DER_OID and
\* ssh_gss_oids("server") the same without the leading count, DER_OID being the DER
\* encoding 06 09 2A 86 48 86 F7 12 01 02 02 of the Kerberos V5 OID, whatever the
\* state of the session.
C14_OidListLayout ==
    call.op = "ssh_gss_oids"
        => /\ call.args[1] = Some(S_client)
                 => call.ret = RBytes(<<0, 0, 0, 1>> \o LengthPrefixed(DER_krb5))
           /\ call.args[1] = Some(S_server)
                 => call.ret = RBytes(LengthPrefixed(DER_krb5))

\* C14 witness: the server list was asked of a session whose service and user name
\* have been set.
C14_Witness ==
    /\ call.op = "ssh_gss_oids" /\ call.args[1] = Some(S_server)
    /\ service = S_foo /\ username = Some(S_e_acute)

\* the first DER value in data is the OBJECT IDENTIFIER 1.2.840.113554.1.2.2
DecodesToKrb5(data) == StartsWith(data, DER_krb5)

\* C15: ssh_check_mech returns True exactly when its argument DER-decodes to the
\* Kerberos V5 OID, and False for every other OID.
C15_CheckMechIffKrb5 ==
    (call.op = "ssh_check_mech" /\ call.exc = "")
        => (call.ret = RBool(TRUE) <=> DecodesToKrb5(Val(call.args[1])))

\* C16: the DER segment of ssh_gss_oids("client"), behind the 4-byte count and the
\* 4-byte length, passes ssh_check_mech, and so does the segment of
\* ssh_gss_oids("server") behind the 4-byte length.
C16_OidRoundTrip ==
    (call.op = "ssh_check_mech"
     /\ call.args[1] \in {Some(OidSegment(S_client)), Some(OidSegment(S_server))})
        => call.exc = "" /\ call.ret = RBool(TRUE)

\* C16 witness: the segment cut from the client list was checked and accepted.
C16_Witness ==
    /\ call.op = "ssh_check_mech" /\ call.args[1] = Some(OidSegment(S_client))
    /\ Len(OidSegment(S_client)) = Len(ssh_gss_oids(S_client)) - 8
    /\ call.ret = RBool(TRUE)

\* C17: for every session_id, username, service and auth_method, _ssh_build_mic
\* returns 4 + len(session_id) + 1 + 4 + len(username) + 4 + len(service) + 4 +
\* len(auth_method) bytes, and the byte at offset 4 + len(session_id) is 50.
C17_BuildMicLength ==
    call.op = "_ssh_build_mic"
        => /\ call.exc = ""
           /\ Len(call.ret.b) = 4 + Len(Val(call.args[1])) + 1
                                  + 4 + Len(Val(call.args[2]))
                                  + 4 + Len(Val(call.args[3]))
                                  + 4 + Len(Val(call.args[4]))
           /\ call.ret.b[4 + Len(Val(call.args[1])) + 1] = 50

\* the scenario of C18: a session id of 32 zero bytes, "alice", "ssh-connection",
\* "gssapi-with-mic"
C18_Scenario ==
    /\ call.op = "_ssh_build_mic"
    /\ call.args = << Some(S_sid32), Some(S_alice), Some(S_ssh_connection),
                      Some(S_gssapi_with_mic) >>

\* C18 as stated: in the scenario _ssh_build_mic returns 84 bytes
\* (4+32+1+4+5+4+14+4+16), the byte at index 36 being 50.
C18_Scenario84Bytes ==
    C18_Scenario
        => /\ call.exc = ""
           /\ Len(call.ret.b) = 84
           /\ call.ret.b[36 + 1] = 50

\* C18 as amended: in the scenario _ssh_build_mic returns 83 bytes
\* (4+32+1+4+5+4+14+4+15, "gssapi-with-mic" having 15 bytes), the byte at index 36
\* being 50.
C18_Scenario83Bytes ==
    C18_Scenario
        => /\ call.exc = ""
           /\ Len(call.ret.b) = 4 + 32 + 1 + 4 + 5 + 4 + 14 + 4 + 15
           /\ Len(call.ret.b) = 83
           /\ call.ret.b[36 + 1] = 50

\* C18 witness: the scenario's call has returned.
C18_Witness == C18_Scenario /\ call.exc = "" /\ call.ret.t = "bytes"

\* C19: after every ssh_init_sec_context or ssh_accept_sec_context call that
\* returns, the established flag of that role is the completion status of the
\* context the session now holds; a new context begun after an established one
\* shows as not established until it completes.
C19_EstablishedFollowsContext ==
    /\ (call.op = "ssh_init_sec_context" /\ call.exc = "")
           => /\ gss_ctxt = engine.cli.id
              /\ gss_ctxt_status <=> Established(engine.cli)
    /\ (call.op = "ssh_accept_sec_context" /\ call.exc = "")
           => /\ gss_srv_ctxt = engine.srv.id
              /\ gss_srv_ctxt_status <=> Established(engine.srv)

\* the values a caller passes as second and third argument of
\* ssh_accept_sec_context
C20_AcceptArgs == NegUsers \cup {Some(<<96>>)}

\* C20: the two implementations behave alike under the same calls. In particular a
\* call ssh_accept_sec_context(hostname, x, y) gives x to the engine as the
\* received token and keeps y as the user name on either backend, and the
\* established flag it leaves is the completion status of the context.
C20_BackendsAgree ==
    [][ \A hostname \in Targets, x \in C20_AcceptArgs, y \in C20_AcceptArgs,
           ans \in Answers :
            ( \/ GSSAPI_ssh_accept_sec_context(hostname, x, y, ans)
              \/ SSPI_ssh_accept_sec_context(hostname, x, y, ans) )
                => /\ call'.trace[Len(call'.trace)].tok = x
                   /\ username' = y
                   /\ call'.exc = ""
                          => (gss_srv_ctxt_status' <=> Established(engine'.srv)) ]_vars

\* what a flag set asks of the engine, in the names of either backend
AsksMutual(fs) == fs \cap {"MUTUAL", "MUTUAL_AUTH"} # {}

AsksIntegrity(fs) == fs \cap {"INTEG", "INTEGRITY"} # {}

AsksReplaySequence(fs) ==
    fs \cap {"REPLAY", "SEQUENCE", "REPLAY_DETECT", "SEQUENCE_DETECT"} # {}

AsksDelegation(fs) == fs \cap {"DELEG", "DELEGATE"} # {}

\* C21 as stated: a client context is created asking for mutual authentication,
\* integrity and replay/sequence protection, and for delegation exactly when
\* gss_deleg_creds was set; the flags of the session are those of construction.
C21_FlagsWithReplay ==
    engine.cli.id # 0
        => /\ AsksMutual(engine.cli.flags)
           /\ AsksIntegrity(engine.cli.flags)
           /\ AsksReplaySequence(engine.cli.flags)
           /\ AsksDelegation(engine.cli.flags) <=> gss_deleg_creds
           /\ engine.cli.flags = gss_flags

\* C21 as amended: a client context is created asking for mutual authentication and
\* integrity (and PROT_READY on GSS-API), not for replay or sequence protection,
\* and for delegation exactly when gss_deleg_creds was set; the flags are those set
\* at construction after every operation.
C21_FlagsOfConstruction ==
    /\ gss_flags = IF api = "MIT"
                   THEN {"PROT_READY", "INTEG", "MUTUAL"}
                            \cup (IF gss_deleg_creds THEN {"DELEG"} ELSE {})
                   ELSE {"INTEGRITY", "MUTUAL_AUTH"}
                            \cup (IF gss_deleg_creds THEN {"DELEGATE"} ELSE {})
    /\ engine.cli.id # 0
           => /\ AsksMutual(engine.cli.flags)
              /\ AsksIntegrity(engine.cli.flags)
              /\ ~AsksReplaySequence(engine.cli.flags)
              /\ AsksDelegation(engine.cli.flags) <=> gss_deleg_creds
              /\ engine.cli.flags = gss_flags

\* C21 witness: the first client context of a GSS-API session constructed without
\* delegation has been created and stepped.
C21_Witness ==
    /\ call.op = "ssh_init_sec_context" /\ call.exc = ""
    /\ api = "MIT" /\ ~gss_deleg_creds /\ engine.inits = 1
    /\ engine.cli.flags = {"PROT_READY", "INTEG", "MUTUAL"}

\* the engine calls that step a context, sign or verify
EngineWork == {"step", "authorize", "get_mic", "sign", "verify_mic", "verify"}

\* C22: an ssh_init_sec_context or ssh_accept_sec_context call steps the context at
\* most once, and ssh_get_mic and ssh_check_mic sign or verify at most once; when
\* that engine call raises, nothing is called after it and the call raises to its
\* caller, returning no token and no result.
C22_NoRetryFailureRaises ==
    call.op \in {"ssh_init_sec_context", "ssh_accept_sec_context", "ssh_get_mic",
                 "ssh_check_mic"}
        => /\ Cardinality({i \in 1..Len(call.trace) : call.trace[i].fn \in EngineWork}) <= 1
           /\ \A i \in 1..Len(call.trace) :
                  call.trace[i].out = "raise"
                      => /\ i = Len(call.trace)
                         /\ call.exc \in {"GSSException", "sspi.error"}
                         /\ call.ret = RNone

\* C22 witness: the second step of a client negotiation raised, and so did the call.
C22_Witness ==
    /\ call.op = "ssh_init_sec_context" /\ call.exc # ""
    /\ Len(call.trace) >= 1
    /\ call.trace[Len(call.trace)].out = "raise"
    /\ ~IsNone(call.trace[Len(call.trace)].tok)
    /\ engine.cli.steps = 1 /\ ~gss_ctxt_status

\* C23: GSSAuth returns an _SSH_GSSAPI object whenever gssapi can be imported, on
\* any platform; an _SSH_SSPI object only when gssapi cannot be imported, sspicon
\* and sspi can, and the platform is Windows; None when only pywin32 can be
\* imported and the platform is not Windows. The object has the auth_method given
\* and the gss_deleg_creds given, True when it is left out.
C23_PrefersGssapi ==
    (call.op = "GSSAuth" /\ call.args # <<>>)
        => LET cls  == ClassOf(call.ret)
               sspi == {"sspicon", "sspi"} \subseteq importable
           IN  /\ "gssapi" \in importable => cls = "MIT"
               /\ cls = "SSPI" => "gssapi" \notin importable /\ sspi /\ os_name = "nt"
               /\ ("gssapi" \notin importable /\ sspi /\ os_name = "nt") => cls = "SSPI"
               /\ ("gssapi" \notin importable /\ sspi /\ os_name # "nt") => cls = "none"
               /\ cls # "none"
                      => /\ call.ret.b = Val(call.args[1])
                         /\ call.ret.n = IF call.args[2] = ArgBool(FALSE) THEN 0 ELSE 1
                         /\ AsksDelegation(call.ret.f) <=> call.args[2] # ArgBool(FALSE)

\* C23 witness: where both libraries can be imported, on Windows, GSSAuth called
\* without its second argument returned an _SSH_GSSAPI object that delegates.
C23_Witness ==
    /\ call.op = "GSSAuth" /\ call.args = << Some(S_gss_keyex), None >>
    /\ importable = {"gssapi", "sspicon", "sspi"} /\ os_name = "nt"
    /\ ClassOf(call.ret) = "MIT" /\ call.ret.n = 1

\* C24: ssh_get_mic with gss_kex signs with the server-side context, never with the
\* client-side one; on a session whose server-side context was never created it
\* fails and returns no MIC, whatever client context the session holds.
C24_KexMicNeedsServerContext ==
    (call.op = "ssh_get_mic" /\ call.kex)
        => /\ gss_srv_ctxt = NoHandle => call.exc # "" /\ call.trace = <<>>
           /\ call.exc = "" => call.trace # <<>>
           /\ \A i \in 1..Len(call.trace) :
                  call.trace[i].h = gss_srv_ctxt /\ call.trace[i].h # NoHandle

\* C24 witness: on an SSPI session that has only run ssh_init_sec_context, to
\* establishment, ssh_get_mic with gss_kex failed.
C24_Witness ==
    /\ call.op = "ssh_get_mic" /\ call.kex /\ call.exc = "AttributeError"
    /\ api = "SSPI" /\ gss_ctxt # NoHandle /\ gss_ctxt_status
    /\ gss_srv_ctxt = NoHandle

\* the username arguments of the calls that take one
UserArgs == {None, Some(S_alice), Some(S_bob)}

\* every answer of the engine that a negotiation step, a verify call can tell apart
AnyStepAnswer ==
    [ok : BOOLEAN, rounds : 1..MaxRounds, final : {None, Some(TokOut)},
     deleg : BOOLEAN, verdict : {"verified"}]

AnyVerifyAnswer ==
    [ok : BOOLEAN, rounds : {1}, final : {None}, deleg : {FALSE},
     verdict : {"verified", "rejected"}]

\* some call of ssh_init_sec_context with this username argument
InitCallWith(user) ==
    \E target \in Targets, mech \in Mechs, tok \in RecvTokens, ans \in AnyStepAnswer :
        \/ GSSAPI_ssh_init_sec_context(target, mech, user, tok, ans)
        \/ SSPI_ssh_init_sec_context(target, mech, user, tok, ans)

\* some call of ssh_accept_sec_context with this username argument
AcceptCallWith(user) ==
    \E hostname \in Targets, tok \in RecvTokens, ans \in AnyStepAnswer :
        \/ GSSAPI_ssh_accept_sec_context(hostname, tok, user, ans)
        \/ SSPI_ssh_accept_sec_context(hostname, user, tok, ans)

\* some call of ssh_check_mic with this username argument
CheckMicCallWith(user) ==
    \E mic \in MicTokens, sid \in SessionIds, ans \in AnyVerifyAnswer :
        \/ GSSAPI_ssh_check_mic(mic, sid, user, ans)
        \/ SSPI_ssh_check_mic(mic, sid, user, ans)

\* C25: ssh_init_sec_context, ssh_accept_sec_context and ssh_check_mic store their
\* username argument (None when left out) whatever their outcome, the unsupported
\* mechanism failure of ssh_init_sec_context included; no other call but
\* set_username changes the stored user name; and ssh_get_mic without gss_kex right
\* after a ssh_check_mic that left the user name None fails before signing.
C25_UsernameOverwritten ==
    [][ /\ \A user \in UserArgs :
              \/ username' = user
              \/ /\ call'.op = "ssh_init_sec_context" => ~InitCallWith(user)
                 /\ call'.op = "ssh_accept_sec_context" => ~AcceptCallWith(user)
                 /\ call'.op = "ssh_check_mic" => ~CheckMicCallWith(user)
        /\ (call'.op = "ssh_init_sec_context" /\ call'.exc = "SSHException")
              => username' \in {None, Some(S_bob)}
        /\ call'.op \notin {"ssh_init_sec_context", "ssh_accept_sec_context",
                             "ssh_check_mic", "set_username"}
              => username' = username
        /\ (call.op = "ssh_check_mic" /\ IsNone(username)
                /\ call'.op = "ssh_get_mic" /\ ~call'.kex)
              => call'.exc = "TypeError" /\ call'.trace = <<>> ]_vars

\* C25 witness: ssh_init_sec_context failed on an unsupported mechanism on a session
\* whose user name had been stored by an earlier call, and its argument is stored.
C25_Witness ==
    /\ call.op = "ssh_init_sec_context" /\ call.exc = "SSHException"
    /\ username = Some(S_bob)
    /\ gss_srv_ctxt # NoHandle /\ gss_ctxt = NoHandle

\* some call of ssh_init_sec_context with this recv_token and a mechanism the call
\* accepts, that stored the target and the user name the session now holds
InitCallOn(tok) ==
    \E mech \in {None, Some(DER_krb5)}, ans \in StepAnswers("init", IsNone(tok), engine.cli) :
        \/ GSSAPI_ssh_init_sec_context(Val(gss_host'), mech, username', tok, ans)
        \/ SSPI_ssh_init_sec_context(Val(gss_host'), mech, username', tok, ans)

\* the engine calls of a trace that create a client context
Creations(trace) ==
    { i \in 1..Len(trace) : trace[i].fn \in {"InitContext", "ClientAuth"} }

\* C26: a call of ssh_init_sec_context that gets past the mechanism check creates or
\* steps by recv_token alone. Without recv_token it makes a context the engine has
\* not handed out before and stores it in place of whatever the session held;
\* with recv_token it never creates one, and on a session without a client context
\* it raises and leaves context, flag and engine as they were.
C26_CreateOrStepByToken ==
    [][ call'.op = "ssh_init_sec_context"
          => /\ InitCallOn(None)
                   => /\ gss_ctxt' = engine.made + 1
                      /\ gss_ctxt' \notin {NoHandle, gss_ctxt, gss_srv_ctxt}
                      /\ engine'.inits = engine.inits + 1
                      /\ engine'.cli.id = gss_ctxt' /\ engine'.cli.steps <= 1
                      /\ \E i \in Creations(call'.trace) : call'.trace[i].h = gss_ctxt'
             /\ \A tok \in RecvTokens \ {None} :
                   InitCallOn(tok)
                     => /\ gss_ctxt' = gss_ctxt
                        /\ engine'.made = engine.made /\ engine'.inits = engine.inits
                        /\ Creations(call'.trace) = {}
                        /\ gss_ctxt = NoHandle
                             => /\ call'.exc = "AttributeError"
                                /\ gss_ctxt_status' = gss_ctxt_status
                                /\ engine' = engine ]_vars

\* C26 witness: a call without recv_token has replaced the client context of a
\* session that already had one.
C26_Witness ==
    /\ call.op = "ssh_init_sec_context" /\ call.exc = ""
    /\ Creations(call.trace) # {}
    /\ engine.inits = 2 /\ gss_ctxt = engine.made

\* the context a MIC call needs: the server-side one for ssh_get_mic with gss_kex and
\* for ssh_check_mic with a username, the client-side one otherwise
NeededCtx(c) ==
    IF c.op = "ssh_get_mic"
    THEN IF c.kex THEN gss_srv_ctxt ELSE gss_ctxt
    ELSE IF IsNone(username') THEN gss_ctxt ELSE gss_srv_ctxt

\* C27: ssh_get_mic and ssh_check_mic leave both contexts, both established flags
\* and the engine's contexts as they were; of the session's fields they write
\* session_id and, ssh_check_mic only, username; and whenever the context of the
\* needed role exists and the payload can be built they sign or verify with it,
\* established or not.
C27_MicCallsFrame ==
    [][ call'.op \in {"ssh_get_mic", "ssh_check_mic"}
          => /\ UNCHANGED <<gss_ctxt, gss_srv_ctxt, gss_ctxt_status, gss_srv_ctxt_status>>
             /\ UNCHANGED <<fixed, gss_host, service, engine>>
             /\ ~IsNone(session_id')
             /\ call'.op = "ssh_get_mic" => username' = username
             /\ (NeededCtx(call') # NoHandle
                   /\ call'.exc \notin {"TypeError", "UnicodeDecodeError"})
                  => /\ Len(call'.trace) = 1
                     /\ call'.trace[1].fn \in {"get_mic", "sign", "verify_mic", "verify"}
                     /\ call'.trace[1].h = NeededCtx(call')
             /\ NeededCtx(call') = NoHandle => call'.exc # "" /\ call'.trace = <<>> ]_vars

\* C27 witness: ssh_check_mic with a username has verified a MIC with a server-side
\* context whose negotiation is not complete.
C27_Witness ==
    /\ call.op = "ssh_check_mic" /\ call.exc = "" /\ api = "MIT"
    /\ ~IsNone(username) /\ gss_srv_ctxt # NoHandle /\ ~gss_srv_ctxt_status
    /\ Len(call.trace) = 1 /\ call.trace[1].h = gss_srv_ctxt

\* some SSPI negotiation call, with the target and user name the session now holds,
\* in which the engine hands back a token with the step that completes the context
SSPICallWithFinalToken ==
    \E tok \in RecvTokens :
        \/ \E mech \in {None, Some(DER_krb5)} :
              \E ans \in StepAnswers("init", IsNone(tok), engine.cli) :
                /\ ~IsNone(ans.final)
                /\ SSPI_ssh_init_sec_context(Val(gss_host'), mech, username', tok, ans)
        \/ \E ans \in StepAnswers("accept", TRUE, engine.srv) :
              /\ ~IsNone(ans.final)
              /\ SSPI_ssh_accept_sec_context(Val(gss_host'), username', tok, ans)

====
